---- MODULE Spec2Model ----
(***************************************************************************)
(* Blue-green deployment scripts of CV-Algorithm-Hub:                      *)
(*   scripts/blue-green-deploy.sh, blue-green-switch.sh,                   *)
(*   blue-green-rollback.sh, blue-green-status.sh (Makefile targets        *)
(*   bg-deploy, bg-switch, bg-rollback, bg-status).                        *)
(*                                                                         *)
(* Shared state is the .env file holding CVHUB_DEPLOYMENT_COLOR, the       *)
(* compose project's prod services, and the nginx container that is        *)
(* reloaded.  Every script run is a process that walks through the         *)
(* commands of its script; each external command can succeed or fail.      *)
(***************************************************************************)
EXTENDS Integers, Sequences, FiniteSets, TLC

\* Number of script runs that may exist side by side.
NumProcs == 2
\* Number of completed runs that are recorded.
MaxCmds == 3

Procs == 1..NumProcs
Colors == {"blue", "green"}

VARIABLES
    env,       \* the .env file: [exists, haskey, val] of CVHUB_DEPLOYMENT_COLOR
    routed,    \* value of the persisted colour when nginx was last reloaded
    services,  \* the compose project's prod services: [status, color]
    proc,      \* per run: position in its script, shell variables, observations
    hist,      \* records of the completed runs, oldest first
    probe,     \* the health probe of deploy at HTTP level: [pc, code, attempts]
    guard,     \* web UI: auth store, localStorage and the router guard
    monitor    \* web UI: the monitor store

deployVars == <<env, routed, services, proc, hist>>
webVars == <<guard, monitor>>
vars == <<env, routed, services, proc, hist, probe, guard, monitor>>

----------------------------------------------------------------------------
\* The .env file

NoFile == [exists |-> FALSE, haskey |-> FALSE, val |-> ""]
NoKey == [exists |-> TRUE, haskey |-> FALSE, val |-> ""]
EnvWith(v) == [exists |-> TRUE, haskey |-> TRUE, val |-> v]

\* Values of a damaged CVHUB_DEPLOYMENT_COLOR line: empty, or some other word.
CorruptVals == {"", "red"}

\* Variant: the `:-blue` default is missing.
CurrentColorNoDefault(e) ==
    IF e.exists /\ e.haskey THEN e.val ELSE ""

\* `source .env 2>/dev/null || true` followed by
\* `CURRENT_COLOR=${CVHUB_DEPLOYMENT_COLOR:-blue}`: the default applies when
\* the variable is unset or empty.
CurrentColor(e) ==
    IF e.exists /\ e.haskey /\ e.val # "" THEN e.val ELSE "blue"

\* Variant: the two echo branches are swapped.
InactiveColorSwapped(c) == IF c = "blue" THEN "blue" ELSE "green"

\* `$([ "$CURRENT_COLOR" = "blue" ] && echo "green" || echo "blue")`
InactiveColor(c) == IF c = "blue" THEN "green" ELSE "blue"

\* `sed -i "s/CVHUB_DEPLOYMENT_COLOR=$from/CVHUB_DEPLOYMENT_COLOR=$to/" .env`
\* sed fails when .env does not exist; otherwise it rewrites the line when the
\* pattern occurs in it and leaves the file alone when it does not.  Over the
\* values used here no value is a proper prefix of another non-empty one, so
\* the unanchored pattern occurs exactly when the stored value equals from.
Sed(e, from, to) ==
    IF ~e.exists THEN [ok |-> FALSE, env |-> e]
    ELSE IF e.haskey /\ e.val = from THEN [ok |-> TRUE, env |-> EnvWith(to)]
    ELSE [ok |-> TRUE, env |-> e]

----------------------------------------------------------------------------
\* Runs

IdleProc ==
    [pc |-> "idle", cmd |-> "none",
     CURRENT_COLOR |-> "", NEW_COLOR |-> "",
     rbCURRENT_COLOR |-> "", PREV_COLOR |-> "",
     child |-> FALSE,
     envBefore |-> NoFile, routedBefore |-> "", servicesBefore |-> "",
     probed |-> FALSE, reloads |-> 0, warns |-> {}, failed |-> {}]

AllIdle == \A q \in Procs : proc[q].pc = "idle"
OthersIdle(p) == \A q \in Procs \ {p} : proc[q].pc = "idle"

\* A run starts only while there is room to record it.
CanStart(p) ==
    /\ proc[p].pc = "idle"
    /\ Len(hist) + Cardinality({q \in Procs : proc[q].pc # "idle"}) < MaxCmds

\* First step of every script: load .env and compute the colours.
Begin(p, c, next) ==
    [IdleProc EXCEPT
        !.pc = next, !.cmd = c,
        !.CURRENT_COLOR = CurrentColor(env),
        !.NEW_COLOR = InactiveColor(CurrentColor(env)),
        !.envBefore = env, !.routedBefore = routed,
        !.servicesBefore = services.status]

\* What is recorded of a run whose script ended with exit status code (0, or 1
\* for any non-zero status); step names the command that ended it ("end"
\* when the script ran to its last line), failed the commands of the run that
\* returned a non-zero status.
Record(r, code, step) ==
    [cmd |-> r.cmd, exit |-> code, step |-> step,
     CURRENT_COLOR |-> r.CURRENT_COLOR, NEW_COLOR |-> r.NEW_COLOR,
     child |-> r.child,
     envBefore |-> r.envBefore, envAfter |-> env',
     routedBefore |-> r.routedBefore, routedAfter |-> routed',
     servicesBefore |-> r.servicesBefore, servicesAfter |-> services'.status,
     probed |-> r.probed, reloads |-> r.reloads, warns |-> r.warns,
     failed |-> r.failed]

Finish(p, r, code, step) ==
    /\ hist' = Append(hist, Record(r, code, step))
    /\ proc' = [proc EXCEPT ![p] = IdleProc]

\* Command c of the run returned a non-zero status.
Fail(r, c) == [r EXCEPT !.failed = @ \cup {c}]

Goto(p, r) ==
    /\ proc' = [proc EXCEPT ![p] = r]
    /\ UNCHANGED hist

\* Variant: no `set -e`, the script goes on after a failing command.
PlainNoErrexit(p, ok, step, next) ==
    /\ UNCHANGED <<env, routed, services>>
    /\ Goto(p, [(IF ok THEN proc[p] ELSE Fail(proc[p], step)) EXCEPT !.pc = next])

\* A command that changes nothing shared: under `set -e` its failure ends the
\* script, its success moves on to the next command.
Plain(p, ok, step, next) ==
    /\ UNCHANGED <<env, routed, services>>
    /\ IF ok THEN Goto(p, [proc[p] EXCEPT !.pc = next])
             ELSE Finish(p, Fail(proc[p], step), 1, step)

----------------------------------------------------------------------------
\* blue-green-deploy.sh

\* lines 30-37: load .env, CURRENT_COLOR, NEW_COLOR, the two log lines
DeployLoad(p) ==
    /\ CanStart(p)
    /\ Goto(p, Begin(p, "deploy", "d_mkdir"))
    /\ UNCHANGED <<env, routed, services>>

\* line 41: mkdir -p "$DEPLOY_DIR"
DeployMkdir(p, ok) ==
    /\ proc[p].pc = "d_mkdir"
    /\ Plain(p, ok, "mkdir", "d_pull")

\* line 45: docker-compose --profile prod pull
DeployPull(p, ok) ==
    /\ proc[p].pc = "d_pull"
    /\ Plain(p, ok, "pull", "d_build")

\* line 49: docker-compose --profile prod build --build-arg DEPLOYMENT_COLOR=...
DeployBuild(p, ok) ==
    /\ proc[p].pc = "d_build"
    /\ Plain(p, ok, "build", "d_up")

\* Variant: the `sleep 30` is missing, the probe follows `up` at once.
DeployUpNoSettle(p, ok, partial) ==
    /\ proc[p].pc = "d_up"
    /\ UNCHANGED <<env, routed>>
    /\ IF ok
       THEN /\ services' = [status |-> "running", color |-> proc[p].NEW_COLOR]
            /\ Goto(p, [proc[p] EXCEPT !.pc = "d_health"])
       ELSE /\ services' = IF partial
                           THEN [status |-> "partial", color |-> proc[p].NEW_COLOR]
                           ELSE services
            /\ Finish(p, Fail(proc[p], "up"), 1, "up")

\* line 53: docker-compose --profile prod up -d.  The prod services are
\* recreated from the images just built; a failing `up` leaves them as they
\* were or partly recreated.
DeployUp(p, ok, partial) ==
    /\ proc[p].pc = "d_up"
    /\ UNCHANGED <<env, routed>>
    /\ IF ok
       THEN /\ services' = [status |-> "running", color |-> proc[p].NEW_COLOR]
            /\ Goto(p, [proc[p] EXCEPT !.pc = "d_sleep"])
       ELSE /\ services' = IF partial
                           THEN [status |-> "partial", color |-> proc[p].NEW_COLOR]
                           ELSE services
            /\ Finish(p, Fail(proc[p], "up"), 1, "up")

\* line 57: sleep 30
DeploySleep(p) ==
    /\ proc[p].pc = "d_sleep"
    /\ Plain(p, TRUE, "sleep", "d_health")

\* Variant: the failure branch lacks `exit 1` and falls through to the sed.
DeployHealthNoExit(p, healthy, logsOk, downOk) ==
    /\ proc[p].pc = "d_health"
    /\ UNCHANGED <<env, routed>>
    /\ LET r == [proc[p] EXCEPT !.probed = TRUE, !.pc = "d_sed"] IN
       IF healthy
       THEN UNCHANGED services /\ Goto(p, r)
       ELSE /\ services' = [status |-> "down", color |-> services.color]
            /\ Goto(p, [Fail(r, "curl") EXCEPT
                            !.warns = @ \cup {"health check failed"}])

\* lines 60-70: curl -f on the health URL; on failure the logs are shown, the
\* prod services are taken down and the script exits 1.  `set -e` is in force
\* in the else branch, so a failing `logs` or `down` ends the script there.
DeployHealth(p, healthy, logsOk, downOk) ==
    /\ proc[p].pc = "d_health"
    /\ UNCHANGED <<env, routed>>
    /\ LET r == [proc[p] EXCEPT !.probed = TRUE] IN
       IF healthy
       THEN /\ UNCHANGED services
            /\ Goto(p, [r EXCEPT !.pc = "d_sed"])
       ELSE LET w == [Fail(r, "curl") EXCEPT
                         !.warns = @ \cup {"health check failed"}] IN
            IF ~logsOk
            THEN UNCHANGED services /\ Finish(p, Fail(w, "logs"), 1, "logs")
            ELSE IF ~downOk
            THEN UNCHANGED services /\ Finish(p, Fail(w, "down"), 1, "down")
            ELSE /\ services' = [status |-> "down", color |-> services.color]
                 /\ Finish(p, w, 1, "health")

\* lines 72-77: sed on .env, then the two closing log lines
DeploySed(p) ==
    /\ proc[p].pc = "d_sed"
    /\ UNCHANGED <<routed, services>>
    /\ LET s == Sed(env, proc[p].CURRENT_COLOR, proc[p].NEW_COLOR) IN
       /\ env' = s.env
       /\ IF s.ok THEN Finish(p, proc[p], 0, "end")
                  ELSE Finish(p, Fail(proc[p], "sed"), 1, "sed")

----------------------------------------------------------------------------
\* blue-green-rollback.sh, run by `make bg-rollback` or by the switch script

\* lines 21-27: load .env, CURRENT_COLOR, PREV_COLOR, the warning line
RollbackColors(r) ==
    [r EXCEPT !.pc = "r_reload",
              !.rbCURRENT_COLOR = CurrentColor(env),
              !.PREV_COLOR = InactiveColor(CurrentColor(env)),
              !.warns = @ \cup {"rolling back"}]

RollbackLoad(p) ==
    /\ CanStart(p)
    /\ Goto(p, RollbackColors(Begin(p, "rollback", "r_reload")))
    /\ UNCHANGED <<env, routed, services>>

\* Variant: the reload's status is ignored (`|| true`), the sed runs anyway.
RollbackReloadIgnored(p, ok) ==
    /\ proc[p].pc = "r_reload"
    /\ UNCHANGED <<env, services>>
    /\ IF ok
       THEN /\ routed' = CurrentColor(env)
            /\ Goto(p, [proc[p] EXCEPT !.pc = "r_sed", !.reloads = @ + 1])
       ELSE /\ UNCHANGED routed
            /\ Goto(p, [Fail(proc[p], "reload") EXCEPT !.pc = "r_sed"])

\* line 30: docker exec cvhub-nginx nginx -s reload
RollbackReload(p, ok) ==
    /\ proc[p].pc = "r_reload"
    /\ UNCHANGED <<env, services>>
    /\ IF ok
       THEN /\ routed' = CurrentColor(env)
            /\ Goto(p, [proc[p] EXCEPT !.pc = "r_sed", !.reloads = @ + 1])
       ELSE /\ UNCHANGED routed
            /\ Finish(p, Fail(proc[p], "reload"), 1, "reload")

\* Variant: the rollback reloads nginx once more after the sed.
RollbackSedReloads(p) ==
    /\ proc[p].pc = "r_sed"
    /\ UNCHANGED services
    /\ LET s == Sed(env, proc[p].rbCURRENT_COLOR, proc[p].PREV_COLOR) IN
       /\ env' = s.env
       /\ routed' = CurrentColor(s.env)
       /\ IF s.ok THEN Finish(p, [proc[p] EXCEPT !.reloads = @ + 1], 0, "end")
                  ELSE Finish(p, Fail(proc[p], "sed"), 1, "sed")

\* lines 33-35: sed on .env, closing log line.  When the switch script called
\* this script, the status is also the status of the switch script (line 43 is
\* its last command).
RollbackSed(p) ==
    /\ proc[p].pc = "r_sed"
    /\ UNCHANGED <<routed, services>>
    /\ LET s == Sed(env, proc[p].rbCURRENT_COLOR, proc[p].PREV_COLOR) IN
       /\ env' = s.env
       /\ IF s.ok THEN Finish(p, proc[p], 0, "end")
                  ELSE Finish(p, Fail(proc[p], "sed"), 1, "sed")

----------------------------------------------------------------------------
\* blue-green-switch.sh

\* lines 22-26: load .env, CURRENT_COLOR, log line
SwitchLoad(p) ==
    /\ CanStart(p)
    /\ Goto(p, Begin(p, "switch", "s_reload"))
    /\ UNCHANGED <<env, routed, services>>

\* lines 28-30: docker exec cvhub-nginx nginx -s reload
SwitchReload(p, ok) ==
    /\ proc[p].pc = "s_reload"
    /\ UNCHANGED <<env, services>>
    /\ IF ok
       THEN /\ routed' = CurrentColor(env)
            /\ Goto(p, [proc[p] EXCEPT !.pc = "s_sleep", !.reloads = @ + 1])
       ELSE /\ UNCHANGED routed
            /\ Finish(p, Fail(proc[p], "reload"), 1, "reload")

\* line 33: sleep 5
SwitchSleep(p) ==
    /\ proc[p].pc = "s_sleep"
    /\ Plain(p, TRUE, "sleep", "s_verify")

\* Variant: a verified switch persists the flipped colour itself.
SwitchVerifyWrites(p, healthy) ==
    /\ proc[p].pc = "s_verify"
    /\ UNCHANGED <<routed, services>>
    /\ LET r == [proc[p] EXCEPT !.probed = TRUE] IN
       IF healthy
       THEN /\ env' = Sed(env, r.CURRENT_COLOR, r.NEW_COLOR).env
            /\ Finish(p, r, 0, "end")
       ELSE /\ UNCHANGED env
            /\ Goto(p, RollbackColors(
                    [Fail(r, "curl") EXCEPT
                        !.child = TRUE,
                        !.warns = @ \cup {"health check failed after switch"}]))

\* lines 35-44: curl -f on the public health URL; on failure the rollback
\* script is run as a child
SwitchVerify(p, healthy) ==
    /\ proc[p].pc = "s_verify"
    /\ UNCHANGED <<env, routed, services>>
    /\ LET r == [proc[p] EXCEPT !.probed = TRUE] IN
       IF healthy
       THEN Finish(p, r, 0, "end")
       ELSE Goto(p, RollbackColors(
                [Fail(r, "curl") EXCEPT
                    !.child = TRUE,
                    !.warns = @ \cup {"health check failed after switch"}]))

----------------------------------------------------------------------------
\* blue-green-status.sh (no `set -e`)

\* Variant: status writes the default colour into a state file that lacks it.
StatusLoadWrites(p) ==
    /\ CanStart(p)
    /\ Goto(p, Begin(p, "status", "t_services"))
    /\ env' = IF env.exists /\ env.haskey THEN env ELSE EnvWith("blue")
    /\ UNCHANGED <<routed, services>>

\* lines 10-19: load .env, print current and inactive colour
StatusLoad(p) ==
    /\ CanStart(p)
    /\ Goto(p, Begin(p, "status", "t_services"))
    /\ UNCHANGED <<env, routed, services>>

\* Variant: the listing is not guarded by `|| echo` and ends the script.
StatusServicesErrexit(p, ok) ==
    /\ proc[p].pc = "t_services"
    /\ Plain(p, ok, "ps", "t_health")

\* lines 22-24: docker-compose ... ps || echo "No services running"
StatusServices(p, ok) ==
    /\ proc[p].pc = "t_services"
    /\ UNCHANGED <<env, routed, services>>
    /\ Goto(p, [proc[p] EXCEPT !.pc = "t_health",
                               !.failed = IF ok THEN @ ELSE @ \cup {"ps"}])

\* lines 26-28: curl -s ... | head -c 200 || echo "No health data"; echo ""
StatusHealth(p, ok) ==
    /\ proc[p].pc = "t_health"
    /\ UNCHANGED <<env, routed, services>>
    /\ Finish(p, [proc[p] EXCEPT !.probed = TRUE,
                                 !.failed = IF ok THEN @ ELSE @ \cup {"curl"}],
              0, "end")

----------------------------------------------------------------------------
\* The health probe of blue-green-deploy.sh, lines 55-70, at HTTP level

\* What the health endpoint answers: an HTTP status, or 0 when no response
\* arrives (connection refused, reset, timed out).
ProbeCodes == {0} \cup (200..599)

ProbeIdle == [pc |-> "idle", code |-> 0, attempts |-> 0]

\* `curl -f "$HEALTH_CHECK_URL"`: exit status 0 unless no response arrives or
\* the response status is 400 or greater; redirects are not followed.
CurlF(code) == code # 0 /\ code < 400

\* line 57: sleep 30
ProbeSettle ==
    /\ probe.pc = "sleep"
    /\ probe' = [probe EXCEPT !.pc = "curl"]
    /\ UNCHANGED <<deployVars, webVars>>

\* lines 62-70: one curl; its status selects "Health check passed!" or the
\* failure branch that ends with exit 1.  There is no loop around it.
ProbeCurl ==
    /\ probe.pc = "curl"
    /\ probe' = [probe EXCEPT !.attempts = @ + 1,
                              !.pc = IF CurlF(probe.code) THEN "passed" ELSE "aborted"]
    /\ UNCHANGED <<deployVars, webVars>>

----------------------------------------------------------------------------
\* Web UI state outside a browser session

GuardIdle == [pc |-> "none"]
MonitorIdle == [pc |-> "none"]

----------------------------------------------------------------------------
\* Web UI: router (router/index.ts) and auth store (stores/auth.ts)
\*
\* guard.token, guard.user: the refs of the auth store, TRUE when non-null.
\* guard.lsToken, guard.lsUser: the items 'token' and 'user' of localStorage,
\* which every tab of the application shares.  guard.pc is the position of
\* the pending beforeEach call, guard.to its target, and guard.last[r] what
\* the guard did with the latest navigation to route r together with what
\* the store and localStorage held when it decided.

\* One route of each kind of the route table: no meta, guest, requiresAuth.
Routes == {"home", "login", "dashboard"}
RequiresAuth(to) == to = "dashboard"
IsGuestOnly(to) == to = "login"

NoNav == [result |-> "none"]

\* auth.ts line 27
IsAuthenticated(g) == g.token /\ g.user

\* Variant: the guard trusts the store only, not localStorage.
DecisionStoreOnly(g, to) ==
    LET isAuthenticated == IsAuthenticated(g)
        seen == [token |-> g.token, user |-> g.user, lsToken |-> g.lsToken]
    IN  IF RequiresAuth(to) /\ ~isAuthenticated
        THEN [result |-> "login", redirect |-> to, seen |-> seen]
        ELSE IF IsGuestOnly(to) /\ isAuthenticated
        THEN [result |-> "dashboard", redirect |-> "none", seen |-> seen]
        ELSE [result |-> "next", redirect |-> "none", seen |-> seen]

\* index.ts lines 84-95: the call of next the guard ends with
Decision(g, to) ==
    LET hasTokenInStorage == g.lsToken
        isAuthenticated == IsAuthenticated(g) \/ hasTokenInStorage
        seen == [token |-> g.token, user |-> g.user, lsToken |-> g.lsToken]
    IN  IF RequiresAuth(to) /\ ~isAuthenticated
        THEN [result |-> "login", redirect |-> to, seen |-> seen]
        ELSE IF IsGuestOnly(to) /\ isAuthenticated
        THEN [result |-> "dashboard", redirect |-> "none", seen |-> seen]
        ELSE [result |-> "next", redirect |-> "none", seen |-> seen]

Decide(g, to) ==
    [g EXCEPT !.pc = "idle", !.to = "none", !.last[to] = Decision(g, to)]

\* Opening or reloading the page: the store is created, auth.ts lines 22-23.
PageLoad ==
    /\ guard' = [guard EXCEPT !.pc = "idle", !.to = "none",
                              !.token = guard.lsToken, !.user = FALSE]
    /\ UNCHANGED <<deployVars, probe, monitor>>

\* index.ts lines 76-82 and, when nothing is awaited, 84-95.  initAuth
\* (auth.ts lines 30-46) runs up to its first await: the axios call of
\* fetchCurrentUser, or its return when an item is missing.
Navigate(to) ==
    /\ guard.pc = "idle"
    /\ guard' =
          IF ~guard.token /\ guard.lsToken
          THEN IF guard.lsToken /\ guard.lsUser
               THEN [guard EXCEPT !.pc = "fetching", !.to = to,
                                  !.token = TRUE, !.user = TRUE]
               ELSE [guard EXCEPT !.pc = "resume", !.to = to]
          ELSE Decide(guard, to)
    /\ UNCHANGED <<deployVars, probe, monitor>>

\* auth.ts lines 52-61: the answer of GET /auth/me arrives (ok) or the
\* request fails; initAuth returns and the guard goes on at line 84.
FetchDone(ok) ==
    /\ guard.pc = "fetching"
    /\ guard' =
          LET g == IF ok THEN [guard EXCEPT !.user = TRUE, !.lsUser = TRUE]
                         ELSE guard
          IN  Decide(g, guard.to)
    /\ UNCHANGED <<deployVars, probe, monitor>>

\* index.ts line 84 after an initAuth that awaited nothing
Resume ==
    /\ guard.pc = "resume"
    /\ guard' = Decide(guard, guard.to)
    /\ UNCHANGED <<deployVars, probe, monitor>>

\* auth.ts lines 64-119: the answer to login or register arrives
Login(ok) ==
    /\ guard' = IF ok THEN [guard EXCEPT !.token = TRUE, !.user = TRUE,
                                         !.lsToken = TRUE, !.lsUser = TRUE]
                      ELSE guard
    /\ UNCHANGED <<deployVars, probe, monitor>>

\* auth.ts lines 180-185
Logout ==
    /\ guard' = [guard EXCEPT !.token = FALSE, !.user = FALSE,
                              !.lsToken = FALSE, !.lsUser = FALSE]
    /\ UNCHANGED <<deployVars, probe, monitor>>

\* Another tab of the application logs in: auth.ts lines 77-78 there; stored
\* is FALSE when the second setItem fails.
OtherTabLogin(stored) ==
    /\ guard' = [guard EXCEPT !.lsToken = TRUE, !.lsUser = @ \/ stored]
    /\ UNCHANGED <<deployVars, probe, monitor>>

\* Another tab of the application logs out: auth.ts lines 183-184 there
OtherTabLogout ==
    /\ guard' = [guard EXCEPT !.lsToken = FALSE, !.lsUser = FALSE]
    /\ UNCHANGED <<deployVars, probe, monitor>>

----------------------------------------------------------------------------
\* Specifications

Step(p) ==
    \/ DeployLoad(p)
    \/ \E ok \in BOOLEAN : DeployMkdir(p, ok)
    \/ \E ok \in BOOLEAN : DeployPull(p, ok)
    \/ \E ok \in BOOLEAN : DeployBuild(p, ok)
    \/ \E ok, partial \in BOOLEAN : DeployUp(p, ok, partial)
    \/ DeploySleep(p)
    \/ \E healthy, logsOk, downOk \in BOOLEAN : DeployHealth(p, healthy, logsOk, downOk)
    \/ DeploySed(p)
    \/ RollbackLoad(p)
    \/ \E ok \in BOOLEAN : RollbackReload(p, ok)
    \/ RollbackSed(p)
    \/ SwitchLoad(p)
    \/ \E ok \in BOOLEAN : SwitchReload(p, ok)
    \/ SwitchSleep(p)
    \/ \E healthy \in BOOLEAN : SwitchVerify(p, healthy)
    \/ StatusLoad(p)
    \/ \E ok \in BOOLEAN : StatusServices(p, ok)
    \/ \E ok \in BOOLEAN : StatusHealth(p, ok)

\* The operator runs one make target at a time.
Next ==
    /\ \E p \in Procs : OthersIdle(p) /\ Step(p)
    /\ UNCHANGED <<probe, guard, monitor>>

\* State between runs: the state file is absent, lacks the key, or names a
\* colour; nginx serves and the services run the colour the scripts would read.
InitWith(e, c) ==
    /\ env = e
    /\ routed = c
    /\ services = [status |-> "running", color |-> c]
    /\ proc = [p \in Procs |-> IdleProc]
    /\ hist = <<>>
    /\ probe = ProbeIdle
    /\ guard = GuardIdle
    /\ monitor = MonitorIdle

Init ==
    \E e \in {NoFile, NoKey} \cup {EnvWith(c) : c \in Colors} :
        InitWith(e, CurrentColor(e))

Spec == Init /\ [][Next]_vars

\* The same system after the CVHUB_DEPLOYMENT_COLOR line was damaged: nginx
\* serves and the services run one of the two colours.
InitCorrupt == \E v \in CorruptVals, c \in Colors : InitWith(EnvWith(v), c)

SpecCorrupt == InitCorrupt /\ [][Next]_vars

\* Nothing in the scripts or the Makefile takes a lock: make targets started
\* from several shells run side by side, their commands interleaved.
NextConc ==
    /\ \E p \in Procs : Step(p)
    /\ UNCHANGED <<probe, guard, monitor>>

SpecConc == Init /\ [][NextConc]_vars

\* The steps of the scripts that wait for an external program: docker-compose
\* pull, build and up, curl, docker exec.  None is given a timeout.
HangPoints ==
    {"d_pull", "d_build", "d_up", "d_health", "r_reload", "s_reload", "s_verify",
     "t_services", "t_health"}

\* The external program of the current step never returns: the script stays
\* blocked in it.
Hang(p) ==
    /\ proc[p].pc \in HangPoints
    /\ proc' = [proc EXCEPT ![p].pc = "hung"]
    /\ UNCHANGED <<env, routed, services, hist>>

\* The next command of the script process p is running.
ScriptStep(p) ==
    /\ OthersIdle(p) /\ Step(p)
    /\ UNCHANGED <<probe, guard, monitor>>

NextHang ==
    \/ \E p \in Procs : ScriptStep(p)
    \/ /\ \E p \in Procs : OthersIdle(p) /\ Hang(p)
       /\ UNCHANGED <<probe, guard, monitor>>

\* Serial runs in which an external call may never return.  A script that can
\* run its next command does so.
SpecHang ==
    Init /\ [][NextHang]_vars /\ \A p \in Procs : WF_vars(ScriptStep(p))

\* The health probe of one deploy run, for every answer of the endpoint.
InitProbe ==
    /\ \E c \in ProbeCodes : probe = [pc |-> "sleep", code |-> c, attempts |-> 0]
    /\ env = EnvWith("blue")
    /\ routed = "blue"
    /\ services = [status |-> "running", color |-> "green"]
    /\ proc = [p \in Procs |-> IdleProc]
    /\ hist = <<>>
    /\ guard = GuardIdle
    /\ monitor = MonitorIdle

NextProbe == ProbeSettle \/ ProbeCurl

SpecProbe == InitProbe /\ [][NextProbe]_vars

----------------------------------------------------------------------------
\* Web UI: monitor store (stores/monitor.ts)
\*
\* monitor.lists maps the id of every list of lists.value to the ids of its
\* items; monitor.error is TRUE when error.value is a message;
\* monitor.inflight holds the requests whose axios call has not settled.

MaxInflight == 2

ListIds == {"l1", "l2"}
ItemIds == {"i1"}

\* The values lists.value can take.
ListValues == UNION {[D -> SUBSET ItemIds] : D \in SUBSET ListIds}

\* The calls of the store's operations, each with the id it is given.
Requests ==
    {[op |-> "fetchLists", id |-> "none"], [op |-> "createList", id |-> "none"]}
    \cup [op : {"updateList", "deleteList", "addItem"}, id : ListIds]
    \cup [op : {"updateItem", "deleteItem"}, id : ItemIds]

\* The first list that holds the item, as the loops of lines 212-218 and
\* 241-247 find it.
ListOf(ls, item) ==
    LET holders == {l \in DOMAIN ls : item \in ls[l]}
    IN  IF holders = {} THEN "none"
        ELSE IF "l1" \in holders THEN "l1" ELSE "l2"

\* lists.value after the request got the answer data (the lists of the
\* server for fetchLists, the id of the new list or item for createList and
\* addItem, the items of the list for updateList).
Applied(ls, req, data) ==
    CASE req.op = "fetchLists" -> data
      [] req.op = "createList" ->
            [l \in DOMAIN ls \cup {data} |-> IF l = data THEN {} ELSE ls[l]]
      [] req.op = "updateList" ->
            IF req.id \in DOMAIN ls THEN [ls EXCEPT ![req.id] = data] ELSE ls
      [] req.op = "deleteList" ->
            [l \in DOMAIN ls \ {req.id} |-> ls[l]]
      [] req.op = "addItem" ->
            IF req.id \in DOMAIN ls THEN [ls EXCEPT ![req.id] = @ \cup {data}] ELSE ls
      [] req.op = "updateItem" -> ls
      [] req.op = "deleteItem" ->
            IF ListOf(ls, req.id) = "none" THEN ls
            ELSE [ls EXCEPT ![ListOf(ls, req.id)] = @ \ {req.id}]

\* What the server can answer to the request.
Answers(req) ==
    CASE req.op = "fetchLists" -> ListValues
      [] req.op = "createList" -> ListIds
      [] req.op = "updateList" -> SUBSET ItemIds
      [] req.op = "addItem" -> ItemIds
      [] OTHER -> {"none"}

\* An operation up to its await: the token test, isLoading, error, the axios
\* call (lines 48-58 for fetchLists, the same in the other six).
Start(req) ==
    /\ monitor.token
    /\ req \notin monitor.inflight
    /\ Cardinality(monitor.inflight) < MaxInflight
    /\ monitor' = [monitor EXCEPT !.isLoading = TRUE, !.error = FALSE,
                                  !.inflight = @ \cup {req}]
    /\ UNCHANGED <<deployVars, probe, guard>>

\* The axios call settles: the rest of the try block or the catch block, then
\* the finally block (lines 59-66 for fetchLists, the same in the other six).
Settle(req, ok, data) ==
    /\ req \in monitor.inflight
    /\ monitor' =
          [monitor EXCEPT
              !.lists = IF ok THEN Applied(@, req, data) ELSE @,
              !.error = IF ok THEN @ ELSE TRUE,
              !.isLoading = FALSE,
              !.inflight = @ \ {req}]
    /\ UNCHANGED <<deployVars, probe, guard>>

\* The store when it is created, lines 35-39; the token comes from
\* localStorage and is not read again.
InitMonitor ==
    /\ \E t \in BOOLEAN :
          monitor = [token |-> t, isLoading |-> FALSE, error |-> FALSE,
                     lists |-> <<>>, inflight |-> {}]
    /\ env = EnvWith("blue")
    /\ routed = "blue"
    /\ services = [status |-> "running", color |-> "blue"]
    /\ proc = [p \in Procs |-> IdleProc]
    /\ hist = <<>>
    /\ probe = ProbeIdle
    /\ guard = GuardIdle

NextMonitor ==
    \/ \E req \in Requests : Start(req)
    \/ \E req \in Requests, ok \in BOOLEAN :
          \E data \in Answers(req) : Settle(req, ok, data)

SpecMonitor == InitMonitor /\ [][NextMonitor]_vars

\* One tab of the web UI from the moment the page is loaded; localStorage
\* holds nothing, or what a login left there: the token and, unless the
\* second setItem (auth.ts line 78) failed, the user.
InitRouter ==
    /\ \E b, u \in BOOLEAN :
          guard = [pc |-> "idle", to |-> "none", token |-> b, user |-> FALSE,
                   lsToken |-> b, lsUser |-> b /\ u,
                   last |-> [r \in Routes |-> NoNav]]
    /\ env = EnvWith("blue")
    /\ routed = "blue"
    /\ services = [status |-> "running", color |-> "blue"]
    /\ proc = [p \in Procs |-> IdleProc]
    /\ hist = <<>>
    /\ probe = ProbeIdle
    /\ monitor = MonitorIdle

NextRouter ==
    \/ PageLoad
    \/ \E to \in Routes : Navigate(to)
    \/ \E ok \in BOOLEAN : FetchDone(ok)
    \/ Resume
    \/ \E ok \in BOOLEAN : Login(ok)
    \/ Logout
    \/ \E stored \in BOOLEAN : OtherTabLogin(stored)
    \/ OtherTabLogout

SpecRouter == InitRouter /\ [][NextRouter]_vars

----------------------------------------------------------------------------
\* Properties

Complement(c) == CHOOSE d \in Colors : d # c

Runs == DOMAIN hist
IsCorrupt(e) == e.exists /\ e.haskey /\ e.val \notin Colors

\* A deploy run whose health probe reported unhealthy.
DeployUnhealthy(h) ==
    h.cmd = "deploy" /\ h.probed /\ "curl" \in h.failed

\* A deploy run whose build, start and health probe succeeded.
DeployPassed(h) ==
    /\ h.cmd = "deploy" /\ h.probed
    /\ h.failed \cap {"mkdir", "pull", "build", "up", "curl"} = {}

\* A switch run whose reload and verification probe succeeded.
SwitchPassed(h) ==
    h.cmd = "switch" /\ h.probed /\ ~h.child /\ h.exit = 0

\* A switch run whose verification probe failed and called the rollback script.
SwitchVerifyFailed(h) ==
    h.cmd = "switch" /\ h.probed /\ "curl" \in h.failed

\* C1: a deploy run whose health probe reported unhealthy leaves the
\* persisted colour, as the scripts read it, as it was when the run started.
C1_UnhealthyKeepsColor ==
    \A i \in Runs :
        DeployUnhealthy(hist[i]) =>
            /\ hist[i].envAfter = hist[i].envBefore
            /\ CurrentColor(hist[i].envAfter) = hist[i].CURRENT_COLOR

C1_Witness ==
    \E i \in Runs :
        /\ DeployUnhealthy(hist[i])
        /\ hist[i].envBefore \in {EnvWith("blue"), EnvWith("green")}
        /\ hist[i].step = "health"

\* C2: a deploy run in which pull, build or up failed ends without a health
\* probe, without a change of the persisted colour and without an nginx reload.
C2_FailedBuildNotPromoted ==
    \A i \in Runs :
        (hist[i].cmd = "deploy" /\ hist[i].failed \cap {"pull", "build", "up"} # {}) =>
            /\ ~hist[i].probed
            /\ hist[i].envAfter = hist[i].envBefore
            /\ hist[i].reloads = 0
            /\ hist[i].routedAfter = hist[i].routedBefore
            /\ hist[i].exit # 0

C2_Witness ==
    /\ Len(hist) = 3
    /\ \A i \in Runs : hist[i].cmd = "deploy" /\ hist[i].envBefore = EnvWith("blue")
    /\ hist[1].step = "pull" /\ hist[2].step = "build" /\ hist[3].step = "up"

\* C3: starting from a state file that names blue or green or names no colour,
\* the colour every script reads as active is blue or green and the colour it
\* computes as inactive is the other one, in every reachable state.
C3_TwoColors ==
    /\ CurrentColor(env) \in Colors
    /\ InactiveColor(CurrentColor(env)) = Complement(CurrentColor(env))
    /\ \A p \in Procs :
        proc[p].pc # "idle" =>
            /\ proc[p].CURRENT_COLOR \in Colors
            /\ proc[p].NEW_COLOR = Complement(proc[p].CURRENT_COLOR)
            /\ proc[p].pc \in {"r_reload", "r_sed"} =>
                /\ proc[p].rbCURRENT_COLOR \in Colors
                /\ proc[p].PREV_COLOR = Complement(proc[p].rbCURRENT_COLOR)
    /\ \A i \in Runs :
        /\ hist[i].CURRENT_COLOR \in Colors
        /\ hist[i].NEW_COLOR = Complement(hist[i].CURRENT_COLOR)

C3_Witness ==
    /\ Len(hist) = 2
    /\ hist[1].envBefore = NoFile
    /\ hist[1].cmd = "deploy" /\ hist[2].cmd = "switch"
    /\ \E p \in Procs : proc[p].pc = "r_sed" /\ proc[p].cmd = "rollback"

\* C4: whenever no script is running, the persisted colour is the colour
\* nginx was last reloaded for.
C4_ActiveIsRouted ==
    AllIdle => CurrentColor(env) = routed

\* C5: a deploy whose build, start and health probe succeed and that exits 0,
\* followed by a switch whose verification succeeds, ends with the persisted
\* colour being the complement of the colour that was active before the
\* deploy, and with nginx reloaded while that complement was persisted.
C5_DeployThenSwitch ==
    \A i \in Runs :
        (/\ i + 1 \in Runs
         /\ DeployPassed(hist[i]) /\ hist[i].exit = 0
         /\ SwitchPassed(hist[i + 1])) =>
            /\ CurrentColor(hist[i + 1].envAfter) = Complement(hist[i].CURRENT_COLOR)
            /\ hist[i + 1].routedAfter = Complement(hist[i].CURRENT_COLOR)

\* C6: when the verification probe of switch fails and the rollback it calls
\* runs to its end, the persisted colour is the colour that was active before
\* the preceding deploy and nginx was last reloaded for that colour.
C6_VerifyFailureRestores ==
    \A i \in Runs :
        (/\ i + 1 \in Runs
         /\ DeployPassed(hist[i]) /\ hist[i].exit = 0
         /\ SwitchVerifyFailed(hist[i + 1])) =>
            /\ hist[i + 1].child
            /\ hist[i + 1].exit = 0 =>
                /\ CurrentColor(hist[i + 1].envAfter) = hist[i].CURRENT_COLOR
                /\ hist[i + 1].routedAfter = hist[i].CURRENT_COLOR

\* C7: two rollback runs in succession leave the persisted colour and the
\* routed colour as the first one left them.
C7_RollbackIdempotent ==
    \A i \in Runs :
        (i + 1 \in Runs /\ hist[i].cmd = "rollback" /\ hist[i + 1].cmd = "rollback") =>
            /\ hist[i + 1].envAfter = hist[i].envAfter
            /\ hist[i + 1].routedAfter = hist[i].routedAfter

\* C8: a successful deploy, then a successful switch, then a rollback restore
\* the persisted colour to its value before the deploy, and the colour nginx
\* was last reloaded for is that value.
C8_RoundTrip ==
    \A i \in Runs :
        (/\ i + 2 \in Runs
         /\ DeployPassed(hist[i]) /\ hist[i].exit = 0
         /\ SwitchPassed(hist[i + 1])
         /\ hist[i + 2].cmd = "rollback" /\ hist[i + 2].exit = 0) =>
            /\ CurrentColor(hist[i + 2].envAfter) = CurrentColor(hist[i].envBefore)
            /\ hist[i + 2].routedAfter = CurrentColor(hist[i].envBefore)

\* C9: without a state file, status reports blue as current and green as
\* inactive and runs to its last line with status 0, whether or not the
\* service listing and the health probe fail.
C9_StatusBootstrap ==
    /\ \A p \in Procs :
        (proc[p].cmd = "status" /\ proc[p].envBefore = NoFile) =>
            proc[p].CURRENT_COLOR = "blue" /\ proc[p].NEW_COLOR = "green"
    /\ \A i \in Runs :
        (hist[i].cmd = "status" /\ hist[i].envBefore = NoFile) =>
            /\ hist[i].CURRENT_COLOR = "blue"
            /\ hist[i].NEW_COLOR = "green"
            /\ hist[i].exit = 0
            /\ hist[i].step = "end"

C9_Witness ==
    \E i \in Runs :
        /\ hist[i].cmd = "status" /\ hist[i].envBefore = NoFile
        /\ hist[i].failed = {"ps", "curl"}

\* C10: with a CVHUB_DEPLOYMENT_COLOR value that is neither blue nor green,
\* every script takes blue as the active colour and logs a warning about the
\* damaged state; no run uses a colour other than blue and green as active.
C10_CorruptDefaultsToBlue ==
    /\ \A p \in Procs :
        (proc[p].pc # "idle" /\ IsCorrupt(proc[p].envBefore)) =>
            /\ proc[p].CURRENT_COLOR = "blue"
            /\ "state corrupt" \in proc[p].warns
    /\ \A i \in Runs :
        /\ hist[i].CURRENT_COLOR \in Colors
        /\ IsCorrupt(hist[i].envBefore) =>
            /\ hist[i].CURRENT_COLOR = "blue"
            /\ "state corrupt" \in hist[i].warns

\* C11: no step of a status run changes the .env file, the services or the
\* colour nginx serves, and the run reports the persisted colour as current
\* and its complement as inactive.
C11_StatusReadOnly ==
    [][\A p \in Procs :
          (proc'[p] # proc[p] /\ "status" \in {proc[p].cmd, proc'[p].cmd}) =>
              /\ UNCHANGED <<env, routed, services>>
              /\ proc'[p].cmd = "status" =>
                  /\ proc'[p].CURRENT_COLOR = CurrentColor(env)
                  /\ proc'[p].NEW_COLOR = Complement(CurrentColor(env))]_vars

C11_Witness ==
    \E i \in Runs :
        /\ i > 1
        /\ hist[i].cmd = "status" /\ hist[i].envBefore = EnvWith("green")
        /\ hist[i].CURRENT_COLOR = "green" /\ hist[i].NEW_COLOR = "blue"

\* C12: a run exits with status 0 exactly when none of its commands failed;
\* a failed pull, build, start, health probe, reload or verification probe
\* gives a non-zero status, also when the rollback called by switch succeeded.
\* status has no failure outcome of its own and exits 0.
C12_ExitCodes ==
    \A i \in Runs :
        IF hist[i].cmd = "status"
        THEN hist[i].exit = 0
        ELSE (hist[i].exit = 0) <=> (hist[i].failed = {})

\* A run of deploy, switch or rollback that has read .env and has not ended.
InFlight(p) ==
    proc[p].pc # "idle" /\ proc[p].cmd \in {"deploy", "switch", "rollback"}

\* C13: at most one deploy, switch or rollback run is between its read of
\* .env and its last step, also when the commands are started concurrently.
C13_SingleFlight ==
    Cardinality({p \in Procs : InFlight(p)}) <= 1

\* C14: the colour a deploy run builds and starts is the complement of the
\* persisted colour it read at its start; the run has no other source for it.
C14_TargetIsInactive ==
    /\ \A p \in Procs :
        (proc[p].cmd = "deploy" /\ proc[p].pc # "idle") =>
            /\ proc[p].CURRENT_COLOR = CurrentColor(proc[p].envBefore)
            /\ proc[p].NEW_COLOR = Complement(CurrentColor(proc[p].envBefore))
            /\ proc[p].pc \in {"d_sleep", "d_health", "d_sed"} =>
                services.color = Complement(CurrentColor(proc[p].envBefore))
    /\ \A i \in Runs :
        hist[i].cmd = "deploy" =>
            hist[i].NEW_COLOR = Complement(CurrentColor(hist[i].envBefore))

C14_Witness ==
    \E p \in Procs :
        /\ proc[p].cmd = "deploy" /\ proc[p].pc = "d_health"
        /\ proc[p].envBefore = EnvWith("green")
        /\ services = [status |-> "running", color |-> "blue"]
        /\ Len(hist) > 0

\* C15: a deploy run whose build, start and health probe succeed and that
\* exits 0 leaves the persisted colour as it was when the run started.
C15_DeployKeepsColor ==
    \A i \in Runs :
        (DeployPassed(hist[i]) /\ hist[i].exit = 0) =>
            hist[i].envAfter = hist[i].envBefore

\* The persisted state the system started from.
InitialEnv ==
    IF hist # <<>> THEN hist[1].envBefore
    ELSE IF AllIdle THEN env
    ELSE proc[CHOOSE p \in Procs : proc[p].pc # "idle"].envBefore

\* Colours whose traffic switch has been verified: the colour the system
\* started on and every colour a switch run verified.
Verified ==
    {CurrentColor(InitialEnv)} \cup
    {hist[i].CURRENT_COLOR : i \in {j \in Runs : SwitchPassed(hist[j])}}

\* No rollback script has run so far, on its own or called by switch.
NoRollbackYet ==
    /\ \A i \in Runs : hist[i].cmd # "rollback" /\ ~hist[i].child
    /\ \A p \in Procs : proc[p].cmd # "rollback" /\ ~proc[p].child

\* C16: switch reloads nginx before its verification probe, and, as long as
\* nothing was rolled back, the persisted colour only ever names a colour
\* whose traffic switch has been verified.
C16_ActiveIsVerified ==
    /\ \A p \in Procs :
        proc[p].cmd = "switch" =>
            /\ proc[p].pc = "s_verify" => (proc[p].reloads = 1 /\ ~proc[p].probed)
            /\ proc[p].probed => proc[p].reloads >= 1
    /\ NoRollbackYet => CurrentColor(env) \in Verified

\* Runs before run i in which a switch was verified.
SwitchesBefore(i) == {j \in 1..(i - 1) : SwitchPassed(hist[j])}
DeploysBefore(i) == {j \in 1..(i - 1) : DeployPassed(hist[j])}
Max(S) == CHOOSE m \in S : \A n \in S : n <= m

\* C17: after a rollback that ran to its end, the persisted and the routed
\* colour are the colour that was serving before the most recent verified
\* switch; when nothing was deployed before, the colour stays the one the
\* system started on, the only one whose stack was built.
C17_RollbackToLastGood ==
    \A i \in Runs :
        (hist[i].cmd = "rollback" /\ hist[i].exit = 0) =>
            IF SwitchesBefore(i) # {}
            THEN LET good == hist[Max(SwitchesBefore(i))].routedBefore IN
                 /\ CurrentColor(hist[i].envAfter) = good
                 /\ hist[i].routedAfter = good
            ELSE DeploysBefore(i) = {} =>
                 CurrentColor(hist[i].envAfter) = CurrentColor(InitialEnv)

\* A run in which the nginx reload of the rollback script failed.
RollbackReloadFailed(h) ==
    /\ "reload" \in h.failed
    /\ h.cmd = "rollback" \/ (h.cmd = "switch" /\ h.child)

\* C18: when the nginx reload of the rollback script fails, the script ends
\* there with a non-zero status, .env and routing as they were and no further
\* reload; a switch run that called it ends there with a non-zero status too.
C18_RollbackReloadFatal ==
    \A i \in Runs :
        RollbackReloadFailed(hist[i]) =>
            /\ hist[i].exit # 0
            /\ hist[i].step = "reload"
            /\ hist[i].envAfter = hist[i].envBefore
            /\ hist[i].reloads = (IF hist[i].child THEN 1 ELSE 0)
            /\ hist[i].cmd = "rollback" => hist[i].routedAfter = hist[i].routedBefore

C18_Witness ==
    \E i, j \in Runs :
        /\ RollbackReloadFailed(hist[i]) /\ hist[i].cmd = "rollback"
        /\ hist[i].envBefore = EnvWith("green")
        /\ RollbackReloadFailed(hist[j]) /\ hist[j].cmd = "switch"
        /\ hist[j].envBefore = EnvWith("green")

\* C19: after a deploy run whose health probe failed, the services that were
\* running before the run are still running and the routed colour is the
\* same as before.
C19_UnhealthyKeepsLive ==
    \A i \in Runs :
        DeployUnhealthy(hist[i]) =>
            /\ hist[i].servicesAfter = hist[i].servicesBefore
            /\ hist[i].routedAfter = hist[i].routedBefore

\* C20: after a deploy run whose build or start failed, no partly created
\* containers of the target colour are left.
C20_PartialStackTornDown ==
    \A i \in Runs :
        (hist[i].cmd = "deploy" /\ hist[i].failed \cap {"build", "up"} # {}) =>
            hist[i].servicesAfter # "partial"

\* The command that follows each command of the deploy script.
DeployOrder ==
    {<<"idle", "d_mkdir">>, <<"d_mkdir", "d_pull">>, <<"d_pull", "d_build">>,
     <<"d_build", "d_up">>, <<"d_up", "d_sleep">>, <<"d_sleep", "d_health">>,
     <<"d_health", "d_sed">>}

\* The stage of the deploy state machine a script position belongs to.
Stage(pc) ==
    CASE pc = "idle" -> "IDLE"
      [] pc \in {"d_mkdir", "d_pull", "d_build", "d_up"} -> "BUILDING"
      [] pc \in {"d_sleep", "d_health"} -> "HEALTH_CHECKING"
      [] pc = "d_sed" -> "PROMOTING"
      [] OTHER -> "NONE"

\* C21: every step of a deploy run either moves on to the next command in the
\* order mkdir, pull, build, up, sleep, probe, sed, with no failed command
\* behind it, or ends the run.  The probe is issued only at the health step,
\* PROMOTING is entered only from a healthy probe, and a run that ends before
\* PROMOTING ends after a failed command with a non-zero status.
C21_DeployStateMachine ==
    [][\A p \in Procs :
          (proc'[p] # proc[p] /\ "deploy" \in {proc[p].cmd, proc'[p].cmd}) =>
              LET a == proc[p].pc
                  b == proc'[p].pc
              IN  /\ (~proc[p].probed /\ proc'[p].probed) => a = "d_health"
                  /\ IF b # "idle"
                     THEN /\ <<a, b>> \in DeployOrder
                          /\ proc'[p].failed = {}
                          /\ Stage(b) = "PROMOTING" =>
                                (Stage(a) = "HEALTH_CHECKING" /\ proc'[p].probed)
                          /\ Stage(b) = "HEALTH_CHECKING" => ~proc[p].probed
                     ELSE /\ hist' = Append(hist, hist'[Len(hist')])
                          /\ LET h == hist'[Len(hist')] IN
                             IF Stage(a) = "PROMOTING"
                             THEN h.probed /\ "curl" \notin h.failed
                             ELSE /\ h.exit # 0 /\ h.failed # {}
                                  /\ h.probed <=> a = "d_health"]_vars

C21_Witness ==
    \E i, j \in Runs :
        /\ DeployPassed(hist[i]) /\ hist[i].exit = 0
        /\ DeployUnhealthy(hist[j]) /\ hist[j].step = "health"

\* C22: the probe reports healthy only on a 2xx answer; deploy issues exactly
\* one probe, and one failed probe makes it abort.
C22_ProbeOnly2xx ==
    /\ probe.attempts <= 1
    /\ probe.pc = "passed" => (probe.attempts = 1 /\ probe.code \in 200..299)
    /\ probe.pc = "aborted" => probe.attempts = 1

\* C23: a deploy run that starts without a state file, or with a state file
\* that lacks the colour key, and whose build, start and probe succeed, exits
\* 0 and leaves a persisted colour behind.
C23_FirstDeployCreatesState ==
    \A i \in Runs :
        (DeployPassed(hist[i]) /\ hist[i].envBefore \in {NoFile, NoKey}) =>
            /\ hist[i].exit = 0
            /\ hist[i].envAfter.exists /\ hist[i].envAfter.haskey
            /\ hist[i].envAfter.val \in Colors

\* C24: a rollback run is one nginx reload followed by one sed on the
\* persisted colour and nothing else: no probe, no change of the stack, no
\* dependence on the stack running; the reload comes before the colour change.
C24_RollbackSteps ==
    [][\A p \in Procs :
         (proc'[p] # proc[p] /\ "rollback" \in {proc[p].cmd, proc'[p].cmd}) =>
             LET a == proc[p].pc  b == proc'[p].pc
                 h == hist'[Len(hist')]
             IN  /\ services' = services
                 /\ ~proc'[p].probed
                 /\ a = "idle" => (b = "r_reload" /\ env' = env /\ routed' = routed
                                   /\ proc'[p].reloads = 0)
                 /\ a = "r_reload" =>
                       /\ env' = env
                       /\ proc[p].reloads = 0
                       /\ IF b = "r_sed"
                          THEN proc'[p].reloads = 1 /\ routed' = CurrentColor(env)
                          ELSE /\ b = "idle" /\ hist' = Append(hist, h)
                               /\ h.exit # 0 /\ h.reloads = 0 /\ ~h.probed
                               /\ routed' = routed
                 /\ a = "r_sed" =>
                       /\ b = "idle" /\ hist' = Append(hist, h)
                       /\ routed' = routed
                       /\ h.reloads = 1 /\ ~h.probed
                       /\ env' = Sed(env, proc[p].rbCURRENT_COLOR,
                                     proc[p].PREV_COLOR).env]_vars

C24_Witness ==
    \E i \in Runs :
        /\ hist[i].cmd = "rollback" /\ hist[i].exit = 0
        /\ hist[i].servicesBefore # "running"
        /\ hist[i].envAfter # hist[i].envBefore
        /\ hist[i].reloads = 1

\* C26: as long as nothing was rolled back, a deploy run never builds and
\* starts the colour nginx is routing to; in particular not the second deploy
\* after a successful deploy without a switch in between.
C26_DeployAvoidsLive ==
    NoRollbackYet =>
        \A p \in Procs :
            (proc[p].cmd = "deploy" /\ proc[p].pc # "idle") =>
                proc[p].NEW_COLOR # routed

\* C28: every change of the persisted colour is a flip to the complement of
\* the colour the same run read at its start, made by the sed of a deploy run
\* after a healthy probe or by the sed of the rollback script after its
\* successful reload; the steps of switch and status never write it.
C28_OnlyFlips ==
    [][env' # env =>
         \E p \in Procs :
            /\ proc'[p] # proc[p]
            /\ \/ /\ proc[p].pc = "d_sed" /\ proc[p].cmd = "deploy"
                  /\ proc[p].probed /\ "curl" \notin proc[p].failed
                  /\ env' = EnvWith(Complement(proc[p].CURRENT_COLOR))
                  /\ env = EnvWith(proc[p].CURRENT_COLOR)
               \/ /\ proc[p].pc = "r_sed"
                  /\ proc[p].reloads >= 1 /\ "reload" \notin proc[p].failed
                  /\ env' = EnvWith(Complement(proc[p].rbCURRENT_COLOR))
                  /\ env = EnvWith(proc[p].rbCURRENT_COLOR)]_vars

C28_Witness ==
    \E i, j, k \in Runs :
        /\ hist[i].cmd = "deploy" /\ hist[i].envAfter # hist[i].envBefore
        /\ hist[j].cmd = "rollback" /\ hist[j].envAfter # hist[j].envBefore
        /\ SwitchVerifyFailed(hist[k]) /\ hist[k].envAfter # hist[k].envBefore

\* C25: every deploy or switch run finishes, also when an external call of the
\* run never returns.
C25_RunsFinish ==
    \A p \in Procs :
        (proc[p].cmd \in {"deploy", "switch"}) ~> (proc[p].pc = "idle")

\* The persisted colour after a sed that flips it.
Flip(e) == Sed(e, CurrentColor(e), InactiveColor(CurrentColor(e))).env

\* The persisted colour after a run with the outcome of h is made alone from e:
\* a deploy or rollback run that reached its sed flips the colour.
SerialEffect(h, e) == IF h.step \in {"end", "sed"} THEN Flip(e) ELSE e

\* C27: after two deploy or rollback runs, however their steps interleave,
\* the persisted colour is what one of the two serial orders of the same runs
\* leaves.
C27_Serializable ==
    (/\ Len(hist) = 2 /\ AllIdle
     /\ \A i \in Runs : hist[i].cmd \in {"deploy", "rollback"} /\ ~hist[i].child) =>
        \E e \in {hist[1].envBefore, hist[2].envBefore} :
            env \in {SerialEffect(hist[2], SerialEffect(hist[1], e)),
                     SerialEffect(hist[1], SerialEffect(hist[2], e))}

\* The guard redirected the latest navigation to route r to the login page,
\* with the requested path as redirect target.
ToLogin(r) == guard.last[r].result = "login" /\ guard.last[r].redirect = r

\* C29 as stated: a navigation to a requiresAuth route, decided while neither
\* the auth store nor localStorage holds a token, is redirected to login with
\* the requested path; a navigation to a guest-only route, decided while the
\* auth store or localStorage holds a token, is redirected to dashboard.
C29_GuardAnyToken ==
    \A r \in Routes :
        guard.last[r] # NoNav =>
            LET s == guard.last[r].seen IN
            /\ (RequiresAuth(r) /\ ~s.token /\ ~s.lsToken) => ToLogin(r)
            /\ (IsGuestOnly(r) /\ (s.token \/ s.lsToken)) =>
                   guard.last[r].result = "dashboard"

\* C29, amended: a navigation to a requiresAuth route, decided while neither
\* the auth store nor localStorage holds a token, is redirected to login with
\* the requested path; a navigation to a guest-only route, decided while
\* localStorage holds a token or the auth store holds a token and a user, is
\* redirected to dashboard.
C29_GuardStoredToken ==
    \A r \in Routes :
        guard.last[r] # NoNav =>
            LET s == guard.last[r].seen IN
            /\ (RequiresAuth(r) /\ ~s.token /\ ~s.lsToken) => ToLogin(r)
            /\ (IsGuestOnly(r) /\ (s.lsToken \/ (s.token /\ s.user))) =>
                   guard.last[r].result = "dashboard"

C29_Witness ==
    /\ guard.last["dashboard"] # NoNav
    /\ ~guard.last["dashboard"].seen.token /\ ~guard.last["dashboard"].seen.lsToken
    /\ ToLogin("dashboard")
    /\ guard.last["login"] # NoNav
    /\ guard.last["login"].seen.lsToken /\ ~guard.last["login"].seen.user
    /\ guard.last["login"].result = "dashboard"

\* C30: isLoading of the monitor store is true whenever a request of one of
\* its seven operations is in flight, also when two of them overlap, and
\* false when none is.
C30_LoadingWhileInFlight ==
    monitor.isLoading <=> (monitor.inflight # {})

====
